---------------------------- MODULE Spec2Model ----------------------------
(***************************************************************************)
(* Model of the two artifacts of the Majima-AI repository:                 *)
(*                                                                         *)
(*   static/js/intro.js  the intro-sequence controller: a DOMContentLoaded *)
(*                       listener that arms a timer, whose callback adds   *)
(*                       the 'fade-out' class and arms a second timer,     *)
(*                       whose callback assigns window.location.href.      *)
(*   init_git.bat        the repository bootstrap script (lines 1-24 of    *)
(*                       the file; the text from line 26 on is the         *)
(*                       project's README, markdown, not batch commands).  *)
(*                                                                         *)
(* The host of intro.js is a browser event loop: one task at a time, a     *)
(* timer callback runs no earlier than its delay and only when the loop is *)
(* free.  Time is a discrete clock in milliseconds advancing by TickMs.    *)
(***************************************************************************)
EXTENDS Integers, Sequences, FiniteSets

VARIABLES
    \* ---- intro.js and its host page
    now,          \* the clock, ms
    introWait,    \* the value of the const introDuration of this page load
    domReady,     \* DOMContentLoaded has been dispatched to the listener
    timers,       \* pending setTimeout timers: records [cb, due]
    bodyClasses,  \* document.body.classList
    href,         \* window.location.href (path)
    navCount,     \* number of assignments to window.location.href
    loadedAt,     \* clock value when the listener ran        (-1: not yet)
    fadeAt,       \* clock value when 'fade-out' was added    (-1: not yet)
    navAt,        \* clock value when href was assigned       (-1: not yet)
    loopFreeAt,   \* fadeAt's reference: when the loop last became free
    busyUntil,    \* the event loop runs another task until this time
    otherTasks,   \* number of other tasks the event loop has run
    \* ---- init_git.bat and its cmd.exe interpreter
    ip,           \* line of the next command to execute
    errorlevel,   \* cmd's %errorlevel%
    status,       \* exit status of git init / add / commit (-1: not run)
    out,          \* the texts the script echoed, in order
    trace,        \* the lines executed, in order
    paused,       \* a pause is waiting for a key
    ended,        \* "running", "exit" (exit /b) or "eof"
    exitCode      \* the status returned to the caller       (-1: running)

introVars == <<now, introWait, domReady, timers, bodyClasses, href, navCount,
               loadedAt, fadeAt, navAt, loopFreeAt, busyUntil, otherTasks>>
batVars   == <<ip, errorlevel, status, out, trace, paused, ended, exitCode>>
vars      == <<introVars, batVars>>

NotYet == 0 - 1

(***************************************************************************)
(* Bounds of the model.                                                    *)
(***************************************************************************)
TickMs         == 100   \* granularity of the clock (one scheduling tick)
MaxLoadDelayMs == 200   \* DOMContentLoaded arrives within this time
MaxOtherTasks  == 2     \* other tasks the event loop runs during the intro

(***************************************************************************)
(* intro.js                                                                *)
(***************************************************************************)
introDuration == 4500   \* const introDuration = 4500;
ExitAnimMs    == 800    \* setTimeout(..., 800)

\* The four tuning values of the comment above the constant.
TitleAnimMs     == 1500
SubtitleDelayMs == 1200
SubtitleAnimMs  == 1000
PauseMs         == 1500
DocumentedIntroMs == TitleAnimMs + SubtitleDelayMs + SubtitleAnimMs + PauseMs

LoginPath == "/login"
IntroPath == "/"
FadeOut   == "fade-out"

\* Durations of the other tasks the event loop may run.
BusyDurations == {TickMs, 3 * TickMs}

\* The intro durations a page may be configured with (boundary 0 included).
IntroDurations == {0, ExitAnimMs, introDuration}

LoopFree == now >= busyUntil
Due(t)   == now >= t.due
Runnable(t) == Due(t) /\ LoopFree

\* The spec's state machine, read off the page's state.
State ==
    IF ~domReady THEN "Idle"
    ELSE IF href = LoginPath THEN "Navigated"
    ELSE IF FadeOut \in bodyClasses THEN "FadingOut"
    ELSE "Waiting"

\* Variant: the first timer is armed with a delay two ticks too long.
ExitTimer_Late == [cb |-> "exit", due |-> now + introWait + 2 * TickMs]

\* setTimeout(() => {...}, introDuration)
ExitTimer     == [cb |-> "exit", due |-> now + introWait]
\* Variant: the second timer is armed without its delay.
RedirectTimer_NoDelay == [cb |-> "redirect", due |-> now]

\* setTimeout(() => {...}, 800)
RedirectTimer == [cb |-> "redirect", due |-> now + ExitAnimMs]

\* Variant: the listener arms both timers itself, the second one with the
\* sum of the two delays, instead of nesting it in the first callback.
DOMContentLoaded_BothTimers ==
    /\ ~domReady
    /\ LoopFree
    /\ domReady' = TRUE
    /\ loadedAt' = now
    /\ timers' = timers \cup
           {ExitTimer, [cb |-> "redirect", due |-> now + introWait + ExitAnimMs]}
    /\ UNCHANGED <<now, introWait, bodyClasses, href, navCount, fadeAt, navAt,
                   loopFreeAt, busyUntil, otherTasks>>

\* The listener: declares introDuration and arms the first timer.
DOMContentLoaded ==
    /\ ~domReady
    /\ LoopFree
    /\ domReady' = TRUE
    /\ loadedAt' = now
    /\ timers' = timers \cup {ExitTimer}
    /\ UNCHANGED <<now, introWait, bodyClasses, href, navCount, fadeAt, navAt,
                   loopFreeAt, busyUntil, otherTasks>>

\* Variant: the first callback adds the class and navigates at once, the
\* nested setTimeout being left out.
ExitCallback_NavigatesAtOnce ==
    \E t \in timers :
        /\ t.cb = "exit"
        /\ Runnable(t)
        /\ bodyClasses' = bodyClasses \cup {FadeOut}
        /\ timers' = timers \ {t}
        /\ fadeAt' = now
        /\ loopFreeAt' = busyUntil
        /\ href' = LoginPath
        /\ navCount' = navCount + 1
        /\ navAt' = now
        /\ UNCHANGED <<now, introWait, domReady, loadedAt, busyUntil,
                       otherTasks>>

\* The first timer's callback: add the class, arm the second timer.
ExitCallback ==
    \E t \in timers :
        /\ t.cb = "exit"
        /\ Runnable(t)
        /\ bodyClasses' = bodyClasses \cup {FadeOut}
        /\ timers' = (timers \ {t}) \cup {RedirectTimer}
        /\ fadeAt' = now
        /\ loopFreeAt' = busyUntil
        /\ UNCHANGED <<now, introWait, domReady, href, navCount, loadedAt,
                       navAt, busyUntil, otherTasks>>

\* Variant: the second timer repeats (setInterval in place of setTimeout).
RedirectCallback_Repeats ==
    \E t \in timers :
        /\ t.cb = "redirect"
        /\ Runnable(t)
        /\ href' = LoginPath
        /\ navCount' = navCount + 1
        /\ navAt' = now
        /\ timers' = (timers \ {t}) \cup {[t EXCEPT !.due = now + ExitAnimMs]}
        /\ UNCHANGED <<now, introWait, domReady, bodyClasses, loadedAt, fadeAt,
                       loopFreeAt, busyUntil, otherTasks>>

\* The second timer's callback: navigate.
RedirectCallback ==
    \E t \in timers :
        /\ t.cb = "redirect"
        /\ Runnable(t)
        /\ href' = LoginPath
        /\ navCount' = navCount + 1
        /\ navAt' = now
        /\ timers' = timers \ {t}
        /\ UNCHANGED <<now, introWait, domReady, bodyClasses, loadedAt, fadeAt,
                       loopFreeAt, busyUntil, otherTasks>>

\* The event loop takes another task of the page (rendering, other scripts).
OtherTask ==
    /\ LoopFree
    /\ State # "Navigated"
    /\ otherTasks < MaxOtherTasks
    /\ \E d \in BusyDurations : busyUntil' = now + d
    /\ otherTasks' = otherTasks + 1
    /\ UNCHANGED <<now, introWait, domReady, timers, bodyClasses, href,
                   navCount, loadedAt, fadeAt, navAt, loopFreeAt>>

\* Time passes.  A free event loop runs a due callback before the clock moves
\* on; the document is gone once the navigation has happened.
Tick ==
    /\ State # "Navigated"
    /\ ~domReady => (now < MaxLoadDelayMs \/ ~LoopFree)
    /\ \A t \in timers : ~Runnable(t)
    /\ now' = now + TickMs
    /\ UNCHANGED <<introWait, domReady, timers, bodyClasses, href, navCount,
                   loadedAt, fadeAt, navAt, loopFreeAt, busyUntil, otherTasks>>

InitPage ==
    /\ now = 0
    /\ domReady = FALSE
    /\ timers = {}
    /\ bodyClasses = {}
    /\ href = IntroPath
    /\ navCount = 0
    /\ loadedAt = NotYet
    /\ fadeAt = NotYet
    /\ navAt = NotYet
    /\ loopFreeAt = 0
    /\ busyUntil = 0
    /\ otherTasks = 0

(***************************************************************************)
(* init_git.bat                                                            *)
(***************************************************************************)
LastLine == 24

\* Exit statuses git returns; 9009 is cmd's status for a command not found.
GitCodes  == {0, 1, 128}
InitCodes == GitCodes \cup {9009}

\* The script, by line.
Cmd(n) ==
    CASE n = 1  -> [op |-> "echooff", text |-> ""]
      [] n = 2  -> [op |-> "echo", text |-> "Initializing Git Repository..."]
      [] n = 3  -> [op |-> "git", text |-> "init"]
      [] n = 4  -> [op |-> "if", text |-> "%errorlevel% neq 0"]
      [] n = 5  -> [op |-> "echo", text |-> "Error: Git is still not recognized. Please restart VS Code/Terminal and try again."]
      [] n = 6  -> [op |-> "pause", text |-> ""]
      [] n = 7  -> [op |-> "exit", text |-> "/b"]
      [] n = 10 -> [op |-> "echo", text |-> "Adding files..."]
      [] n = 11 -> [op |-> "git", text |-> "add ."]
      [] n = 12 -> [op |-> "git", text |-> "commit -m Initial commit for Majima AI"]
      [] n = 14 -> [op |-> "echo", text |-> ""]
      [] n = 15 -> [op |-> "echo", text |-> "Git repository initialized successfully!"]
      [] n = 16 -> [op |-> "echo", text |-> ""]
      [] n = 17 -> [op |-> "echo", text |-> "Next steps:"]
      [] n = 18 -> [op |-> "echo", text |-> "1. Create a new repository on GitHub.com"]
      [] n = 19 -> [op |-> "echo", text |-> "2. Run the commands shown on GitHub, for example:"]
      [] n = 20 -> [op |-> "echo", text |-> "   git remote add origin https://github.com/YOUR_USERNAME/YOUR_REPO_NAME.git"]
      [] n = 21 -> [op |-> "echo", text |-> "   git branch -M main"]
      [] n = 22 -> [op |-> "echo", text |-> "   git push -u origin main"]
      [] n = 23 -> [op |-> "echo", text |-> ""]
      [] n = 24 -> [op |-> "pause", text |-> ""]
      [] OTHER  -> [op |-> "none", text |-> ""]

\* Lines holding a command (blank lines and the closing parenthesis do not).
CommandLines == {n \in 1..LastLine : Cmd(n).op # "none"}

\* The line cmd executes after line n when control falls through.
NextCmd(n) ==
    IF \E m \in CommandLines : m > n
    THEN CHOOSE m \in CommandLines : m > n /\ \A k \in CommandLines : k > n => m <= k
    ELSE LastLine + 1

Running == ended = "running"
At(op)  == Running /\ ~paused /\ ip \in CommandLines /\ Cmd(ip).op = op
AtGit(arg) == At("git") /\ Cmd(ip).text = arg

\* Variant: the test is inverted (equ in place of neq).
IfTarget_Inverted == IF errorlevel = 0 THEN NextCmd(ip) ELSE NextCmd(7)

\* if %errorlevel% neq 0 ( ... ): the block's first line, or the line after it.
IfTarget == IF errorlevel # 0 THEN NextCmd(ip) ELSE NextCmd(7)

\* @echo off
EchoOff ==
    /\ At("echooff")
    /\ ip' = NextCmd(ip)
    /\ trace' = Append(trace, ip)
    /\ UNCHANGED <<errorlevel, status, out, paused, ended, exitCode>>

\* echo <text>
Echo ==
    /\ At("echo")
    /\ out' = Append(out, Cmd(ip).text)
    /\ ip' = NextCmd(ip)
    /\ trace' = Append(trace, ip)
    /\ UNCHANGED <<errorlevel, status, paused, ended, exitCode>>

\* git init
GitInit ==
    /\ AtGit("init")
    /\ \E code \in InitCodes :
          /\ errorlevel' = code
          /\ status' = [status EXCEPT !.init = code]
    /\ ip' = NextCmd(ip)
    /\ trace' = Append(trace, ip)
    /\ UNCHANGED <<out, paused, ended, exitCode>>

\* if %errorlevel% neq 0 (
IfErrorlevel ==
    /\ At("if")
    /\ ip' = IfTarget
    /\ trace' = Append(trace, ip)
    /\ UNCHANGED <<errorlevel, status, out, paused, ended, exitCode>>

\* Variant: the staging step is checked like git init, leaving on failure.
GitAdd_Checked ==
    /\ AtGit("add .")
    /\ \E code \in GitCodes :
          /\ errorlevel' = code
          /\ status' = [status EXCEPT !.add = code]
          /\ ended' = IF code # 0 THEN "exit" ELSE ended
          /\ exitCode' = IF code # 0 THEN code ELSE exitCode
    /\ ip' = NextCmd(ip)
    /\ trace' = Append(trace, ip)
    /\ UNCHANGED <<out, paused>>

\* git add .
GitAdd ==
    /\ AtGit("add .")
    /\ \E code \in GitCodes :
          /\ errorlevel' = code
          /\ status' = [status EXCEPT !.add = code]
    /\ ip' = NextCmd(ip)
    /\ trace' = Append(trace, ip)
    /\ UNCHANGED <<out, paused, ended, exitCode>>

\* git commit -m "Initial commit for Majima AI"
GitCommit ==
    /\ AtGit("commit -m Initial commit for Majima AI")
    /\ \E code \in GitCodes :
          /\ errorlevel' = code
          /\ status' = [status EXCEPT !.commit = code]
    /\ ip' = NextCmd(ip)
    /\ trace' = Append(trace, ip)
    /\ UNCHANGED <<out, paused, ended, exitCode>>

\* Variant: the pause lines are missing from the script.
Pause_Missing ==
    /\ At("pause")
    /\ ip' = NextCmd(ip)
    /\ UNCHANGED <<errorlevel, status, out, trace, paused, ended, exitCode>>

\* pause: wait for a key
Pause ==
    /\ At("pause")
    /\ paused' = TRUE
    /\ trace' = Append(trace, ip)
    /\ UNCHANGED <<ip, errorlevel, status, out, ended, exitCode>>

\* the user presses a key: the pause returns
KeyPress ==
    /\ Running
    /\ paused
    /\ paused' = FALSE
    /\ ip' = NextCmd(ip)
    /\ UNCHANGED <<errorlevel, status, out, trace, ended, exitCode>>

\* Variant: exit /b is missing, control falls out of the if block.
ExitB_FallsThrough ==
    /\ At("exit")
    /\ ip' = NextCmd(ip)
    /\ trace' = Append(trace, ip)
    /\ UNCHANGED <<errorlevel, status, out, paused, ended, exitCode>>

\* exit /b: leave the script, the caller sees the current errorlevel
ExitB ==
    /\ At("exit")
    /\ ended' = "exit"
    /\ exitCode' = errorlevel
    /\ trace' = Append(trace, ip)
    /\ UNCHANGED <<ip, errorlevel, status, out, paused>>

\* control runs off the end of the file
EndOfFile ==
    /\ Running
    /\ ~paused
    /\ ip > LastLine
    /\ ended' = "eof"
    /\ exitCode' = errorlevel
    /\ UNCHANGED <<ip, errorlevel, status, out, trace, paused>>

InitBat ==
    /\ ip = 1
    /\ errorlevel = 0
    /\ status = [init |-> NotYet, add |-> NotYet, commit |-> NotYet]
    /\ out = <<>>
    /\ trace = <<>>
    /\ paused = FALSE
    /\ ended = "running"
    /\ exitCode = NotYet

(***************************************************************************)
(* Specifications                                                          *)
(***************************************************************************)
Init == InitPage /\ introWait = introDuration /\ InitBat

InitAnyDuration == InitPage /\ introWait \in IntroDurations /\ InitBat

NextIntro ==
    \/ DOMContentLoaded /\ UNCHANGED batVars
    \/ ExitCallback /\ UNCHANGED batVars
    \/ RedirectCallback /\ UNCHANGED batVars
    \/ OtherTask /\ UNCHANGED batVars
    \/ Tick /\ UNCHANGED batVars

NextBat ==
    \/ EchoOff /\ UNCHANGED introVars
    \/ Echo /\ UNCHANGED introVars
    \/ GitInit /\ UNCHANGED introVars
    \/ IfErrorlevel /\ UNCHANGED introVars
    \/ GitAdd /\ UNCHANGED introVars
    \/ GitCommit /\ UNCHANGED introVars
    \/ Pause /\ UNCHANGED introVars
    \/ KeyPress /\ UNCHANGED introVars
    \/ ExitB /\ UNCHANGED introVars
    \/ EndOfFile /\ UNCHANGED introVars

\* The intro controller as written (introDuration = 4500).
Spec == Init /\ [][NextIntro]_vars

\* The intro controller for every configured intro duration.
SpecAnyDuration == InitAnyDuration /\ [][NextIntro]_vars

\* The event loop keeps running: time passes and a runnable callback is run.
SpecFair ==
    /\ Init
    /\ [][NextIntro]_vars
    /\ WF_vars(Tick /\ UNCHANGED batVars)
    /\ WF_vars(DOMContentLoaded /\ UNCHANGED batVars)
    /\ WF_vars(ExitCallback /\ UNCHANGED batVars)
    /\ WF_vars(RedirectCallback /\ UNCHANGED batVars)

\* The bootstrap script.
SpecBat == Init /\ [][NextBat]_vars

(***************************************************************************)
(* Properties                                                              *)
(***************************************************************************)
Max(a, b) == IF a >= b THEN a ELSE b
IsPrefix(s, t) == Len(s) <= Len(t) /\ \A i \in 1..Len(s) : s[i] = t[i]
Executed(n) == \E i \in 1..Len(trace) : trace[i] = n
Pending(cb) == \E t \in timers : t.cb = cb

\* C1: the navigation never happens before 'fade-out' has been added: the two
\* timers are never pending together, the navigation timer is pending only
\* once the class is on the body, and a navigation follows the class addition.
C1_NavigationAfterFadeOut ==
    /\ Cardinality(timers) <= 1
    /\ Pending("redirect") => FadeOut \in bodyClasses /\ State = "FadingOut"
    /\ State = "Waiting" => ~Pending("redirect")
    /\ href = LoginPath => FadeOut \in bodyClasses
    /\ navAt # NotYet => fadeAt # NotYet /\ fadeAt <= navAt

C1_Witness ==
    /\ href = LoginPath
    /\ FadeOut \in bodyClasses
    /\ fadeAt # NotYet
    /\ fadeAt < navAt

\* C2: exactly one navigation, to '/login': href is assigned at most once, it
\* has been assigned once both timers have fired, and nothing is pending
\* after it.
C2_ExactlyOneNavigation ==
    /\ navCount <= 1
    /\ navCount = 0 => href = IntroPath
    /\ navCount = 1 => href = LoginPath /\ timers = {}
    /\ (domReady /\ timers = {}) => navCount = 1

C2_Witness == domReady /\ timers = {} /\ navCount = 1 /\ href = LoginPath

\* C6: measured from DOMContentLoaded, the class is added no earlier than the
\* intro duration and the navigation happens no earlier than intro duration +
\* exit duration, for every configured intro duration, 0 included.
C6_LowerBounds ==
    /\ fadeAt # NotYet => fadeAt - loadedAt >= introWait
    /\ navAt # NotYet => navAt - loadedAt >= introWait + ExitAnimMs

C6_Witness ==
    /\ introWait = 0
    /\ fadeAt # NotYet
    /\ navAt # NotYet
    /\ navAt - loadedAt >= ExitAnimMs

\* C7 as stated: the class is added no later than intro duration + one
\* scheduling tick after DOMContentLoaded, whatever the event loop is doing.
C7_Original ==
    fadeAt # NotYet => fadeAt <= loadedAt + introWait + TickMs

\* C7: the class is added no later than one scheduling tick after the later
\* of the two: the intro duration has elapsed, the event loop has finished the
\* other tasks it took up before running the callback.
C7_BoundedByLoopFree ==
    fadeAt # NotYet =>
        fadeAt <= Max(loadedAt + introWait, loopFreeAt) + TickMs

C7_Witness ==
    /\ fadeAt # NotYet
    /\ loopFreeAt > loadedAt + introWait
    /\ fadeAt > loadedAt + introWait + TickMs

\* C8: the states are visited in the order Idle, Waiting, FadingOut,
\* Navigated; every transition after the first is a due timer firing; no step
\* removes a timer without running its callback; and once DOMContentLoaded
\* has fired the page eventually reaches Navigated.
StateOrder ==
    {<<"Idle", "Waiting">>, <<"Waiting", "FadingOut">>,
     <<"FadingOut", "Navigated">>}

C8_Step ==
    /\ State' # State => <<State, State'>> \in StateOrder
    /\ (State' # State /\ State # "Idle") =>
           \E t \in timers : Due(t) /\ t \notin timers'
    /\ State = "Idle" => (State' # State <=> (~domReady /\ domReady'))
    /\ \A t \in timers : t \notin timers' => Due(t) /\ State' # State

C8_OrderAndProgress ==
    /\ [][C8_Step]_vars
    /\ (domReady ~> (State = "Navigated"))

C8_Witness == State = "Navigated" /\ timers = {} /\ navAt > fadeAt

\* C10 as stated: the delay of the first timer is the sum of the four
\* documented tuning values.
C10_Original ==
    \A t \in timers : t.cb = "exit" => t.due - loadedAt = DocumentedIntroMs

\* The lines run when git init fails, and when it succeeds.
FailureTrace == <<1, 2, 3, 4, 5, 6, 7>>
SuccessTrace == <<1, 2, 3, 4, 10, 11, 12, 14, 15, 16, 17, 18, 19, 20, 21, 22,
                  23, 24>>

\* The texts echoed by the lines of a trace.
Echoed(tr) ==
    LET lines == SelectSeq(tr, LAMBDA n : Cmd(n).op = "echo")
    IN  [i \in 1..Len(lines) |-> Cmd(lines[i]).text]

\* C3: staging, committing and the success message and instructions are
\* reached only in runs where git init returned 0.
C3_LaterStepsOnlyAfterInitOk ==
    /\ (\E n \in 10..LastLine : Executed(n)) => status.init = 0
    /\ status.add # NotYet => status.init = 0
    /\ status.commit # NotYet => status.init = 0
    /\ (\E i \in 1..Len(out) : out[i] = Cmd(15).text) => status.init = 0

C3_Witness ==
    /\ status.init = 0
    /\ status.add # NotYet
    /\ status.commit # NotYet
    /\ Executed(15)
    /\ Executed(22)

\* C4: when git init returns nonzero the script prints the diagnostic, then
\* pauses, then terminates, in that order, having staged and committed
\* nothing.
C4_FailurePath ==
    (status.init # NotYet /\ status.init # 0) =>
        /\ IsPrefix(trace, FailureTrace)
        /\ status.add = NotYet /\ status.commit = NotYet
        /\ Running => ENABLED NextBat
        /\ ~Running =>
              /\ ended = "exit"
              /\ ~paused
              /\ trace = FailureTrace
              /\ out = <<Cmd(2).text, Cmd(5).text>>

C4_Witness ==
    /\ status.init = 9009
    /\ ended = "exit"
    /\ trace = FailureTrace
    /\ Len(out) = 2

C9_UncheckedFailuresSilent ==
    (status.init = 0 /\ (status.add > 0 \/ status.commit > 0)) =>
        /\ Running => ENABLED NextBat
        /\ IsPrefix(out, Echoed(SuccessTrace))
        /\ ~Running => ended = "eof" /\ out = Echoed(SuccessTrace)

C9_Witness ==
    /\ status.init = 0
    /\ status.add > 0
    /\ status.commit > 0
    /\ ended = "eof"
    /\ out = Echoed(SuccessTrace)
    /\ \E i \in 1..Len(out) : out[i] = Cmd(15).text

=============================================================================
